---- MODULE Spec2Model ----
(***************************************************************************)
(* pixel-brain: the batched DataLoader (src/pixelbrain/data_loader.py) and *)
(* the hybrid document + vector Database (src/pixelbrain/database.py).     *)
(*                                                                         *)
(* Python strings the code inspects (str.find, f-strings) are sequences of *)
(* tokens; a Python value is a record [t, v] carrying its dynamic type.    *)
(***************************************************************************)
EXTENDS Integers, Sequences, FiniteSets, TLC

VARIABLES
    db_id,        \* Database._db_id
    vector_db,    \* kind of object held by Database._vector_db
    images,       \* Database._db.images: image id -> document (key -> value)
    collections,  \* chroma collections: index name -> (image id -> embedding)
    fs,           \* files currently present under the images directory
    loaders,      \* DataLoader objects, by slot
    yielded,      \* per loader: the batches of ids handed out so far, in order
    origin,       \* per loader: how it was made, and from what
    ret           \* the last call and what it returned or raised

vars == <<db_id, vector_db, images, collections, fs, loaders, yielded, origin, ret>>

-----------------------------------------------------------------------------
(* Python values *)

Str(s) == [t |-> "str", v |-> s]
Bool(b) == [t |-> "bool", v |-> <<IF b THEN "True" ELSE "False">>]
Ndarray(xs) == [t |-> "ndarray", v |-> xs]
None == [t |-> "NoneType", v |-> <<>>]

\* isinstance(field_value, np.ndarray)
IsNdarray(value) == value.t = "ndarray"

\* ndarray.tolist(): the plain list of the array's numbers
ToList(value) == value.v

\* np.array(list)
NpArray(xs) == Ndarray(xs)

\* str.find(sub) != -1
Contains(s, sub) ==
    \E i \in 1..(Len(s) - Len(sub) + 1) : SubSeq(s, i, i + Len(sub) - 1) = sub

IN_VECTOR_STORE_STR == <<"IN_VECTOR_STORE">>

ID_KEY == <<"_id">>
PATH_KEY == <<"image_path">>

-----------------------------------------------------------------------------
(* Database (src/pixelbrain/database.py) *)

\* f"{os.getcwd()}/chroma/{database_id}"; unset when a vector key is given
LocalVectorDbPath == <<"cwd", "/", "chroma", "/">> \o db_id

\* f"{self._db_id}-{field_name}"
IndexFqn(field_name) == db_id \o <<"-">> \o field_name

\* f"{IN_VECTOR_STORE_STR}:{self._local_vector_db_path}"
Placeholder == Str(IN_VECTOR_STORE_STR \o <<":">> \o LocalVectorDbPath)

\* isinstance(self._vector_db, MongoClient): MongoClient(key)[database_id] is a
\* pymongo Database, a chromadb client is neither
IsMongoClient(kind) == kind = "MongoClient"

\* images.update_one({'_id': id}, {'$set': {key: value}}, upsert=True)
UpdateOne(imgs, image_id, key, value) ==
    IF image_id \in DOMAIN imgs
    THEN [imgs EXCEPT ![image_id] =
            [k \in DOMAIN imgs[image_id] \cup {key} |->
                IF k = key THEN value ELSE imgs[image_id][k]]]
    ELSE [i \in DOMAIN imgs \cup {image_id} |->
            IF i = image_id
            THEN [k \in {ID_KEY, key} |-> IF k = key THEN value ELSE Str(<<image_id>>)]
            ELSE imgs[i]]

add_image_replace(imgs, image_id, image_path) ==
    [i \in DOMAIN imgs \cup {image_id} |->
        IF i = image_id
        THEN [k \in {ID_KEY, PATH_KEY} |->
                IF k = ID_KEY THEN Str(<<image_id>>) ELSE Str(<<image_path>>)]
        ELSE imgs[i]]

add_image_overwrite(imgs, image_id, image_path) ==
    UpdateOne(imgs, image_id, PATH_KEY, Str(<<image_path>>))

add_image_skip(imgs, image_id, image_path) ==
    imgs

add_image(imgs, image_id, image_path) ==
    IF image_id \in DOMAIN imgs
    THEN imgs
    ELSE UpdateOne(imgs, image_id, PATH_KEY, Str(<<image_path>>))

\* a call's outcome on the two stores: err is "ok" or the exception raised
Outcome(imgs, cols, err) == [images |-> imgs, collections |-> cols, err |-> err]

\* collection.upsert(image_id, embedding)
Upsert(cols, index_fqn, image_id, embedding) ==
    LET old == IF index_fqn \in DOMAIN cols THEN cols[index_fqn] ELSE << >>
        new == [i \in DOMAIN old \cup {image_id} |->
                    IF i = image_id THEN embedding ELSE old[i]]
    IN  [n \in DOMAIN cols \cup {index_fqn} |-> IF n = index_fqn THEN new ELSE cols[n]]

RECURSIVE store_field(_, _, _, _, _)

_store_vector(imgs, cols, image_id, field_name, embedding) ==
    IF IsMongoClient(vector_db)
    THEN Outcome(imgs, cols, "AssertionError")
    ELSE IF vector_db # "chromadb"
    THEN Outcome(imgs, cols, "TypeError")
    ELSE store_field(imgs, Upsert(cols, IndexFqn(field_name), image_id, ToList(embedding)),
                     image_id, field_name, Placeholder)

store_field_no_id_check(imgs, cols, image_id, field_name, field_value) ==
    IF IsNdarray(field_value)
    THEN IF Contains(field_name, <<"-">>)
         THEN Outcome(imgs, cols, "InvalidArgument")
         ELSE _store_vector(imgs, cols, image_id, field_name, field_value)
    ELSE Outcome(UpdateOne(imgs, image_id, field_name, field_value), cols, "ok")

store_field_no_dash_check(imgs, cols, image_id, field_name, field_value) ==
    IF image_id \notin DOMAIN imgs
    THEN Outcome(imgs, cols, "NotFound")
    ELSE IF IsNdarray(field_value)
    THEN _store_vector(imgs, cols, image_id, field_name, field_value)
    ELSE Outcome(UpdateOne(imgs, image_id, field_name, field_value), cols, "ok")

store_field(imgs, cols, image_id, field_name, field_value) ==
    IF image_id \notin DOMAIN imgs
    THEN Outcome(imgs, cols, "NotFound")
    ELSE IF IsNdarray(field_value)
    THEN IF Contains(field_name, <<"-">>)
         THEN Outcome(imgs, cols, "InvalidArgument")
         ELSE _store_vector(imgs, cols, image_id, field_name, field_value)
    ELSE Outcome(UpdateOne(imgs, image_id, field_name, field_value), cols, "ok")

\* images.find_one({'_id': image_id})
find_image(imgs, image_id) ==
    IF image_id \in DOMAIN imgs THEN imgs[image_id] ELSE None

\* a read's outcome: err is "ok" or the exception raised
Got(value, err) == [value |-> value, err |-> err]

get_field_no_redirect(imgs, cols, image_id, field_name) ==
    IF image_id \notin DOMAIN imgs
    THEN Got(None, "NotFound")
    ELSE IF field_name \notin DOMAIN imgs[image_id]
    THEN Got(None, "FieldNotFound")
    ELSE Got(imgs[image_id][field_name], "ok")

get_field(imgs, cols, image_id, field_name) ==
    IF image_id \notin DOMAIN imgs
    THEN Got(None, "NotFound")
    ELSE IF field_name \notin DOMAIN imgs[image_id]
    THEN Got(None, "FieldNotFound")
    ELSE LET field_value == imgs[image_id][field_name] IN
         IF field_value.t # "str"
         THEN Got(None, "AttributeError")
         ELSE IF ~Contains(field_value.v, IN_VECTOR_STORE_STR)
         THEN Got(field_value, "ok")
         ELSE IF IsMongoClient(vector_db)
         THEN Got(None, "ReservedValue")
         ELSE IF vector_db # "chromadb"
         THEN Got(None, "TypeError")
         ELSE IF IndexFqn(field_name) \notin DOMAIN cols
         THEN Got(None, "IndexNotFound")
         ELSE IF image_id \notin DOMAIN cols[IndexFqn(field_name)]
         THEN Got(None, "AssertionError")
         ELSE Got(NpArray(cols[IndexFqn(field_name)][image_id]), "ok")

\* ids of list(images.find({field_name: value})), or {"$exists": True} for None
find_images_with_value(imgs, field_name, value) ==
    {i \in DOMAIN imgs :
        /\ field_name \in DOMAIN imgs[i]
        /\ (value # None => imgs[i][field_name] = value)}

filter_keep_missing(imgs, field_name, field_value) ==
    LET kept == {i \in DOMAIN imgs :
                    field_name \in DOMAIN imgs[i] =>
                        (field_value # None => imgs[i][field_name] = field_value)}
    IN  [i \in kept |-> imgs[i]]

\* Database.filter: delete_many of {"$exists": False} or of {"$ne": field_value}
filter(imgs, field_name, field_value) ==
    LET deleted ==
            IF field_value = None
            THEN {i \in DOMAIN imgs : field_name \notin DOMAIN imgs[i]}
            ELSE {i \in DOMAIN imgs :
                    \/ field_name \notin DOMAIN imgs[i]
                    \/ imgs[i][field_name] # field_value}
    IN  [i \in DOMAIN imgs \ deleted |-> imgs[i]]

\* the distance of a chroma collection's default space, squared L2
RECURSIVE SqL2(_, _)
SqL2(a, b) ==
    IF a = << >> \/ b = << >> THEN 0
    ELSE (Head(a) - Head(b)) * (Head(a) - Head(b)) + SqL2(Tail(a), Tail(b))

\* collection.query(query, n_results)['ids'][0]: every list of the n_results
\* nearest ids, nearest first, that the index may return (ids at the same
\* distance come in either order); n_results is cut down to the collection's
\* size
Nearest(index, query, n_results) ==
    LET n == IF n_results < Cardinality(DOMAIN index)
             THEN n_results ELSE Cardinality(DOMAIN index)
        d(i) == SqL2(index[i], query)
    IN  {ids \in [1..n -> DOMAIN index] :
            /\ \A j, k \in 1..n : j < k => ids[j] # ids[k] /\ d(ids[j]) <= d(ids[k])
            /\ \A i \in DOMAIN index :
                  (\A k \in 1..n : ids[k] # i) => \A k \in 1..n : d(ids[k]) <= d(i)}

\* what find_image returns to a caller: the document as a dict, or None
Dict(imgs, image_id) ==
    IF image_id \in DOMAIN imgs THEN [t |-> "dict", v |-> imgs[image_id]] ELSE None

\* a query's outcome: (results_meta, results_dists), or the exception raised
Found(results_meta, results_dists, err) ==
    [value |-> [t |-> "tuple", v |-> <<results_meta, results_dists>>], err |-> err]

_query_vector_get_or_create(imgs, cols, index_fqn, query, n_results) ==
    IF index_fqn \notin DOMAIN cols
    THEN {Found(<< >>, << >>, "ok")}
    ELSE {Found([k \in 1..Len(ids) |-> Dict(imgs, ids[k])],
                [k \in 1..Len(ids) |-> SqL2(cols[index_fqn][ids[k]], ToList(query))],
                "ok") : ids \in Nearest(cols[index_fqn], ToList(query), n_results)}

\* Database._query_vector: the outcomes the call may have
_query_vector(imgs, cols, index_fqn, query, n_results) ==
    IF IsMongoClient(vector_db)
    THEN {Found(<< >>, << >>, "AssertionError")}
    ELSE IF vector_db # "chromadb"
    THEN {Found(<< >>, << >>, "TypeError")}
    ELSE IF index_fqn \notin DOMAIN cols
    THEN {Found(<< >>, << >>, "IndexNotFound")}
    ELSE {Found([k \in 1..Len(ids) |-> Dict(imgs, ids[k])],
                [k \in 1..Len(ids) |-> SqL2(cols[index_fqn][ids[k]], ToList(query))],
                "ok") : ids \in Nearest(cols[index_fqn], ToList(query), n_results)}

query_vector_field_bare_name(imgs, cols, field_name, query, n_results) ==
    _query_vector(imgs, cols, field_name, query, n_results)

\* Database.query_vector_field
query_vector_field(imgs, cols, field_name, query, n_results) ==
    _query_vector(imgs, cols, IndexFqn(field_name), query, n_results)

\* the loop of clone_row over the fields still to copy. The document holds no
\* ndarray (store_field routes those to the index), so no store_field of the
\* loop raises on a registered target and the order of the fields is immaterial.
RECURSIVE CopyFields(_, _, _, _)
CopyFields(o, target_image_id, source_image, names) ==
    IF names = {} THEN o
    ELSE LET field_name == CHOOSE n \in names : TRUE
             r == store_field(o.images, o.collections, target_image_id, field_name,
                              source_image[field_name])
         IN  IF r.err # "ok" THEN r
             ELSE CopyFields(r, target_image_id, source_image, names \ {field_name})

\* Database.clone_row
clone_row(imgs, cols, source_image_id, target_image_id) ==
    IF source_image_id \notin DOMAIN imgs
    THEN Outcome(imgs, cols, "NotFound")
    ELSE IF target_image_id \notin DOMAIN imgs
    THEN Outcome(imgs, cols, "NotFound")
    ELSE CopyFields(Outcome(imgs, cols, "ok"), target_image_id, imgs[source_image_id],
                    DOMAIN imgs[source_image_id] \ {ID_KEY, PATH_KEY})

\* Database.get_all_images: the documents of list(images.find())
get_all_images(imgs) == {imgs[i] : i \in DOMAIN imgs}

\* Database.delete_db: drop_database, then rmtree of the chroma directory of
\* this database id, which holds every index of the persistent client; with a
\* vector key _local_vector_db_path was never set and reading it raises
delete_db(imgs, cols) ==
    IF IsMongoClient(vector_db)
    THEN Outcome(<< >>, cols, "ok")
    ELSE IF vector_db # "chromadb"
    THEN Outcome(<< >>, cols, "AttributeError")
    ELSE Outcome(<< >>, << >>, "ok")

-----------------------------------------------------------------------------
(* The older Database (src/python/pixel_brain/database.py). Its _vector_db is *)
(* an in-memory chromadb.Client(), or None when a mongo key is given.         *)

\* the kinds of _vector_db the older class holds
LegacyKinds == {"chromadb.Client", "None"}

\* what pymongo can encode into a document: it has no encoder for a numpy
\* ndarray and update_one raises bson.errors.InvalidDocument for one
Encodable(value) == ~IsNdarray(value)

\* add_image of the older class: raises on an id that exists
legacy_add_image(imgs, cols, image_id, image_path) ==
    IF image_id \in DOMAIN imgs
    THEN Outcome(imgs, cols, "ValueError")
    ELSE Outcome(UpdateOne(imgs, image_id, PATH_KEY, Str(<<image_path>>)), cols, "ok")

\* _store_vector of the older class
legacy_store_vector(imgs, cols, index_fqn, image_id, embedding) ==
    IF vector_db = "None"
    THEN Outcome(imgs, cols, "AssertionError")
    ELSE Outcome(imgs, Upsert(cols, index_fqn, image_id, ToList(embedding)), "ok")

legacy_store_field_unencoded(imgs, cols, image_id, field_name, field_value) ==
    IF image_id \notin DOMAIN imgs
    THEN Outcome(imgs, cols, "NotFound")
    ELSE Outcome(UpdateOne(imgs, image_id, field_name, field_value), cols, "ok")

\* store_field of the older class
legacy_store_field(imgs, cols, image_id, field_name, field_value) ==
    IF image_id \notin DOMAIN imgs
    THEN Outcome(imgs, cols, "NotFound")
    ELSE IF IsNdarray(field_value) /\ vector_db # "None"
    THEN IF vector_db = "None"
         THEN Outcome(imgs, cols, "RuntimeError")
         ELSE IF Contains(field_name, <<"-">>)
         THEN Outcome(imgs, cols, "InvalidArgument")
         ELSE legacy_store_vector(imgs, cols, IndexFqn(field_name), image_id, field_value)
    ELSE IF ~Encodable(field_value)
    THEN Outcome(imgs, cols, "InvalidDocument")
    ELSE Outcome(UpdateOne(imgs, image_id, field_name, field_value), cols, "ok")

\* _query_vector of the older class
legacy_query_vector(imgs, cols, index_fqn, query, n_results) ==
    IF vector_db = "None"
    THEN {Found(<< >>, << >>, "AssertionError")}
    ELSE IF index_fqn \notin DOMAIN cols
    THEN {Found(<< >>, << >>, "IndexNotFound")}
    ELSE {Found([k \in 1..Len(ids) |-> Dict(imgs, ids[k])],
                [k \in 1..Len(ids) |-> SqL2(cols[index_fqn][ids[k]], ToList(query))],
                "ok") : ids \in Nearest(cols[index_fqn], ToList(query), n_results)}

\* query_vector_field of the older class
legacy_query_vector_field(imgs, cols, field_name, query, n_results) ==
    IF vector_db = "None"
    THEN {Found(<< >>, << >>, "ValueError")}
    ELSE legacy_query_vector(imgs, cols, IndexFqn(field_name), query, n_results)

\* index_name.split("-")[0]
SplitHead(name) ==
    IF \E k \in 1..Len(name) : name[k] = "-"
    THEN SubSeq(name, 1, (CHOOSE k \in 1..Len(name) :
                            /\ name[k] = "-"
                            /\ \A j \in 1..(k - 1) : name[j] # "-") - 1)
    ELSE name

\* delete_db of the older class
legacy_delete_db(imgs, cols) ==
    IF vector_db = "None"
    THEN Outcome(<< >>, cols, "ok")
    ELSE LET deleted == {index_name \in DOMAIN cols : SplitHead(index_name) = db_id}
         IN  Outcome(<< >>, [n \in DOMAIN cols \ deleted |-> cols[n]], "ok")

-----------------------------------------------------------------------------
(* The images directory *)

\* every file the directory may hold, in the order glob lists a directory
FileOrder == <<"a.jpg", "s/b.png", "s/l.jpg", "s/n.txt">>
Files == {FileOrder[i] : i \in 1..Len(FileOrder)}

\* the file's extension
Ext(f) == CASE f = "a.jpg" -> "jpg"
            [] f = "s/b.png" -> "png"
            [] f = "s/l.jpg" -> "jpg"
            [] OTHER -> "txt"

\* the number of directories between the images directory and the file
Depth(f) == IF f = "a.jpg" THEN 0 ELSE 1

\* os.path.realpath: absolute, symbolic links resolved (s/l.jpg links to a.jpg)
realpath(f) == CASE f = "a.jpg" -> "/imgs/a.jpg"
                 [] f = "s/b.png" -> "/imgs/s/b.png"
                 [] f = "s/l.jpg" -> "/imgs/a.jpg"
                 [] f = "s/n.txt" -> "/imgs/s/n.txt"
                 [] OTHER -> f

ImageIds == {realpath(f) : f \in {g \in Files : Ext(g) # "txt"}}

image_extensions == <<"jpg", "jpeg", "png", "PNG", "JPEG", "JPG">>

\* glob.glob(os.path.join(images_path, f'**/*.{ext}'), recursive=...): with
\* recursive, ** spans zero or more directories; without, it is one directory
Glob(files, ext, is_recursive) ==
    SelectSeq(FileOrder,
              LAMBDA f : /\ f \in files
                         /\ Ext(f) = ext
                         /\ (is_recursive \/ Depth(f) = 1))

RECURSIVE GlobAll(_, _, _)
GlobAll(files, exts, is_recursive) ==
    IF exts = << >> THEN << >>
    ELSE Glob(files, Head(exts), is_recursive) \o GlobAll(files, Tail(exts), is_recursive)

_get_all_image_paths(files, is_recursive) ==
    GlobAll(files, image_extensions, is_recursive)

-----------------------------------------------------------------------------
(* DataLoader (src/pixelbrain/data_loader.py) *)

\* DataLoader.__init__ on a local images directory holding files
DataLoader(files, batch_size, decode_images, load_images, is_recursive) ==
    [ batch_size         |-> batch_size,
      is_recursive       |-> is_recursive,
      image_paths        |-> _get_all_image_paths(files, is_recursive),
      decode_images      |-> decode_images,
      load_images        |-> load_images,
      is_first_iteration |-> TRUE ]

\* a Python list of locators
List(xs) == [t |-> "list", v |-> xs]

\* DataLoader.__init__ on any images_path: _get_all_image_paths calls
\* self._images_path.startswith('s3://'), which a str has and a list has not;
\* the images_path of a str is here the local directory (no s3:// prefix)
DataLoaderFrom(images_path, files, batch_size, decode_images, load_images, is_recursive) ==
    IF images_path.t # "str"
    THEN [err |-> "AttributeError", self |-> << >>]
    ELSE [err |-> "ok",
          self |-> DataLoader(files, batch_size, decode_images, load_images,
                              is_recursive)]

clone_keep_pending(files, self) ==
    [DataLoader(files, self.batch_size, TRUE, TRUE, TRUE)
        EXCEPT !.image_paths = self.image_paths, !.is_first_iteration = FALSE]

\* DataLoader.clone: DataLoader(self._images_path, self._database, self._batch_size)
clone(files, self) ==
    DataLoader(files, self.batch_size, TRUE, TRUE, TRUE)

\* DataLoader._read_image
_read_image(self, image_path) ==
    IF self.decode_images THEN "tensor" ELSE "bytes"

\* the image slot of a batch entry
_load_image(self, image_path) ==
    IF self.load_images THEN _read_image(self, image_path) ELSE "None"

refresh_always(files, self) ==
    [self EXCEPT !.is_first_iteration = FALSE,
                 !.image_paths = _get_all_image_paths(files, self.is_recursive)]

\* __next__, lines 57-59
Refresh(files, self) ==
    IF self.is_first_iteration
    THEN [self EXCEPT !.is_first_iteration = FALSE,
                      !.image_paths = _get_all_image_paths(files, self.is_recursive)]
    ELSE self

\* the state of one run of the loop of __next__
Run(self, imgs, ids_batch, image_batch, status) ==
    [ self |-> self, images |-> imgs, ids_batch |-> ids_batch,
      image_batch |-> image_batch, status |-> status ]

iterate_id_is_locator(r) ==
    IF r.self.image_paths = << >>
    THEN IF r.image_batch = << >>
         THEN [r EXCEPT !.status = "StopIteration"]
         ELSE [r EXCEPT !.status = "break"]
    ELSE LET image_path == realpath(Head(r.self.image_paths))
             image_id == Head(r.self.image_paths)
         IN  Run([r.self EXCEPT !.image_paths = Tail(@)],
                 add_image(r.images, image_id, image_path),
                 Append(r.ids_batch, image_id),
                 Append(r.image_batch, _load_image(r.self, image_path)),
                 "loop")

iterate_without_pop(r) ==
    IF r.self.image_paths = << >>
    THEN IF r.image_batch = << >>
         THEN [r EXCEPT !.status = "StopIteration"]
         ELSE [r EXCEPT !.status = "break"]
    ELSE LET image_path == realpath(Head(r.self.image_paths)) IN
         Run(r.self,
             add_image(r.images, image_path, image_path),
             Append(r.ids_batch, image_path),
             Append(r.image_batch, _load_image(r.self, image_path)),
             "loop")

iterate_drop_partial(r) ==
    IF r.self.image_paths = << >>
    THEN [r EXCEPT !.status = "StopIteration"]
    ELSE LET image_path == realpath(Head(r.self.image_paths)) IN
         Run([r.self EXCEPT !.image_paths = Tail(@)],
             add_image(r.images, image_path, image_path),
             Append(r.ids_batch, image_path),
             Append(r.image_batch, _load_image(r.self, image_path)),
             "loop")

\* one pass of the body of the for loop of __next__, lines 62-72
Iterate(r) ==
    IF r.self.image_paths = << >>
    THEN IF r.image_batch = << >>
         THEN [r EXCEPT !.status = "StopIteration"]
         ELSE [r EXCEPT !.status = "break"]
    ELSE LET image_path == realpath(Head(r.self.image_paths))
             image_id == image_path
         IN  Run([r.self EXCEPT !.image_paths = Tail(@)],
                 add_image(r.images, image_id, image_path),
                 Append(r.ids_batch, image_id),
                 Append(r.image_batch, _load_image(r.self, image_path)),
                 "loop")

\* for _ in range(n): ...
RECURSIVE Loop(_, _)
Loop(n, r) ==
    IF n <= 0 \/ r.status # "loop" THEN r ELSE Loop(n - 1, Iterate(r))

\* DataLoader.__next__
__next__(files, self, imgs) ==
    Loop(self.batch_size, Run(Refresh(files, self), imgs, << >>, << >>, "loop"))

len_counts_partial(self) ==
    (Len(self.image_paths) + self.batch_size - 1) \div self.batch_size

\* DataLoader.__len__
__len__(self) == Len(self.image_paths) \div self.batch_size

\* DataLoader._get_image_from_path: the id of the one document of the path, or
\* the exception raised
_get_image_from_path(imgs, image_path) ==
    LET image_fullpath == realpath(image_path)
        image_doc == find_images_with_value(imgs, PATH_KEY, Str(<<image_fullpath>>))
    IN  IF image_doc = {} THEN [err |-> "ValueError", id |-> ""]
        ELSE IF Cardinality(image_doc) # 1 THEN [err |-> "AssertionError", id |-> ""]
        ELSE [err |-> "ok", id |-> CHOOSE i \in image_doc : TRUE]

\* the exception of the first pending path whose lookup fails, else "ok"
RECURSIVE LookupError(_, _)
LookupError(imgs, paths) ==
    IF paths = << >> THEN "ok"
    ELSE IF _get_image_from_path(imgs, Head(paths)).err # "ok"
    THEN _get_image_from_path(imgs, Head(paths)).err
    ELSE LookupError(imgs, Tail(paths))

\* the test of lines 159-164 on one pending path
Passes(imgs, image_path, field_name, field_value) ==
    LET image_doc == imgs[_get_image_from_path(imgs, image_path).id] IN
    /\ field_name \in DOMAIN image_doc
    /\ (field_value # None => image_doc[field_name] = field_value)

loader_filter_skip_unmatched(self, imgs, field_name, field_value) ==
    [self |-> [self EXCEPT !.image_paths =
                  SelectSeq(@, LAMBDA p :
                      /\ _get_image_from_path(imgs, p).err = "ok"
                      /\ Passes(imgs, p, field_name, field_value))],
     err |-> "ok"]

\* DataLoader.filter: the loader afterwards, and "ok" or the exception raised
loader_filter(self, imgs, field_name, field_value) ==
    IF LookupError(imgs, self.image_paths) # "ok"
    THEN [self |-> self, err |-> LookupError(imgs, self.image_paths)]
    ELSE [self |-> [self EXCEPT !.image_paths =
                        SelectSeq(@, LAMBDA p : Passes(imgs, p, field_name, field_value))],
          err |-> "ok"]

\* DataLoader.custom_filter, with keep the ids the injected filter returns
custom_filter(self, imgs, keep) ==
    IF LookupError(imgs, self.image_paths) # "ok"
    THEN [self |-> self, err |-> LookupError(imgs, self.image_paths)]
    ELSE LET image_ids == [i \in 1..Len(self.image_paths) |->
                              _get_image_from_path(imgs, self.image_paths[i]).id]
             filtered_ids == SelectSeq(image_ids, LAMBDA i : i \in keep)
         IN  [self |-> [self EXCEPT !.image_paths =
                            [i \in 1..Len(filtered_ids) |->
                                imgs[filtered_ids[i]][PATH_KEY].v[1]]],
              err |-> "ok"]

set_batch_size_restarts(self, batch_size) ==
    [self EXCEPT !.batch_size = batch_size, !.is_first_iteration = TRUE]

\* DataLoader.set_batch_size
set_batch_size(self, batch_size) == [self EXCEPT !.batch_size = batch_size]

-----------------------------------------------------------------------------
(* Inputs *)

MaxBatch == 2
BatchSizes == 1..MaxBatch
Slots == {1, 2}

IS_PERSON == <<"is_person">>
EMBEDDING == <<"embedding">>
FACE_EMBEDDING == <<"face", "-", "embedding">>
FieldNames == {EMBEDDING, FACE_EMBEDDING}

Vectors == {Ndarray(<<1, 0>>), Ndarray(<<0, 1>>)}
Scalars == {Bool(TRUE), Str(<<"x">>)}
FieldValues == Scalars \cup Vectors

ImagePaths == ImageIds

\* how a loader came to be: by __init__ or clone(); whether filter() has returned
\* on it, and has dropped locators from it; the same of the loader it was cloned
\* from, when it was cloned
NoOrigin == [kind |-> "none", filtered |-> FALSE, narrowed |-> FALSE,
             of_filtered |-> FALSE, of_narrowed |-> FALSE]

\* a call's name, the loader it was made on (0: none), "ok" or the exception
\* raised, and what it returned
Ret(op, loader, err, ids_batch, image_batch, out) ==
    [ op |-> op, loader |-> loader, err |-> err, ids_batch |-> ids_batch,
      image_batch |-> image_batch, out |-> out ]

NoRet == Ret("none", 0, "ok", << >>, << >>, None)

-----------------------------------------------------------------------------
(* Database calls *)

AddImage(image_id, image_path) ==
    /\ images' = add_image(images, image_id, image_path)
    /\ ret' = Ret("add_image", 0, "ok", << >>, << >>, None)
    /\ UNCHANGED <<db_id, vector_db, collections, fs, loaders, yielded, origin>>

StoreField(image_id, field_name, field_value) ==
    LET o == store_field(images, collections, image_id, field_name, field_value) IN
    /\ images' = o.images
    /\ collections' = o.collections
    /\ ret' = Ret("store_field", 0, o.err, << >>, << >>, None)
    /\ UNCHANGED <<db_id, vector_db, fs, loaders, yielded, origin>>

GetField(image_id, field_name) ==
    LET g == get_field(images, collections, image_id, field_name) IN
    /\ ret' = Ret("get_field", 0, g.err, << >>, << >>, g.value)
    /\ UNCHANGED <<db_id, vector_db, images, collections, fs, loaders, yielded, origin>>

Filter(field_name, field_value) ==
    /\ images' = filter(images, field_name, field_value)
    /\ ret' = Ret("filter", 0, "ok", << >>, << >>, None)
    /\ UNCHANGED <<db_id, vector_db, collections, fs, loaders, yielded, origin>>

CloneRow(source_image_id, target_image_id) ==
    LET o == clone_row(images, collections, source_image_id, target_image_id) IN
    /\ images' = o.images
    /\ collections' = o.collections
    /\ ret' = Ret("clone_row", 0, o.err, << >>, << >>, None)
    /\ UNCHANGED <<db_id, vector_db, fs, loaders, yielded, origin>>

QueryVectorField(field_name, query, n_results) ==
    /\ \E r \in query_vector_field(images, collections, field_name, query, n_results) :
          ret' = Ret("query_vector_field", 0, r.err, << >>, << >>, r.value)
    /\ UNCHANGED <<db_id, vector_db, images, collections, fs, loaders, yielded, origin>>

DeleteDb ==
    LET o == delete_db(images, collections) IN
    /\ images' = o.images
    /\ collections' = o.collections
    /\ ret' = Ret("delete_db", 0, o.err, << >>, << >>, None)
    /\ UNCHANGED <<db_id, vector_db, fs, loaders, yielded, origin>>

-----------------------------------------------------------------------------
(* Calls of the older Database *)

LegacyAddImage(image_id, image_path) ==
    LET o == legacy_add_image(images, collections, image_id, image_path) IN
    /\ images' = o.images
    /\ ret' = Ret("add_image", 0, o.err, << >>, << >>, None)
    /\ UNCHANGED <<db_id, vector_db, collections, fs, loaders, yielded, origin>>

LegacyStoreField(image_id, field_name, field_value) ==
    LET o == legacy_store_field(images, collections, image_id, field_name, field_value) IN
    /\ images' = o.images
    /\ collections' = o.collections
    /\ ret' = Ret("store_field", 0, o.err, << >>, << >>, None)
    /\ UNCHANGED <<db_id, vector_db, fs, loaders, yielded, origin>>

LegacyQueryVectorField(field_name, query, n_results) ==
    /\ \E r \in legacy_query_vector_field(images, collections, field_name, query,
                                          n_results) :
          ret' = Ret("query_vector_field", 0, r.err, << >>, << >>, r.value)
    /\ UNCHANGED <<db_id, vector_db, images, collections, fs, loaders, yielded, origin>>

LegacyDeleteDb ==
    LET o == legacy_delete_db(images, collections) IN
    /\ images' = o.images
    /\ collections' = o.collections
    /\ ret' = Ret("delete_db", 0, o.err, << >>, << >>, None)
    /\ UNCHANGED <<db_id, vector_db, fs, loaders, yielded, origin>>

-----------------------------------------------------------------------------
(* DataLoader calls *)

Construct(l, batch_size, decode_images, load_images, reload, is_recursive) ==
    /\ l \notin DOMAIN loaders
    /\ loaders' = [m \in DOMAIN loaders \cup {l} |->
                     IF m = l
                     THEN DataLoader(fs, batch_size, decode_images, load_images,
                                     is_recursive)
                     ELSE loaders[m]]
    /\ yielded' = [yielded EXCEPT ![l] = << >>]
    /\ origin' = [origin EXCEPT ![l] = [NoOrigin EXCEPT !.kind = "init"]]
    /\ ret' = Ret("init", l, "ok", << >>, << >>, None)
    /\ UNCHANGED <<db_id, vector_db, images, collections, fs>>

ConstructFrom(l, images_path, batch_size, decode_images, load_images, is_recursive) ==
    /\ l \notin DOMAIN loaders
    /\ LET c == DataLoaderFrom(images_path, fs, batch_size, decode_images, load_images,
                               is_recursive)
       IN  /\ loaders' = IF c.err # "ok" THEN loaders
                         ELSE [m \in DOMAIN loaders \cup {l} |->
                                  IF m = l THEN c.self ELSE loaders[m]]
           /\ origin' = IF c.err # "ok" THEN origin
                        ELSE [origin EXCEPT ![l] = [NoOrigin EXCEPT !.kind = "init"]]
           /\ ret' = Ret("init", l, c.err, << >>, << >>, None)
    /\ yielded' = [yielded EXCEPT ![l] = << >>]
    /\ UNCHANGED <<db_id, vector_db, images, collections, fs>>

Clone(src, dst) ==
    /\ src \in DOMAIN loaders
    /\ dst # src
    /\ loaders' = [m \in DOMAIN loaders \cup {dst} |->
                     IF m = dst THEN clone(fs, loaders[src]) ELSE loaders[m]]
    /\ yielded' = [yielded EXCEPT ![dst] = << >>]
    /\ origin' = [origin EXCEPT ![dst] =
                    [kind |-> "clone", filtered |-> FALSE, narrowed |-> FALSE,
                     of_filtered |-> origin[src].filtered,
                     of_narrowed |-> origin[src].narrowed]]
    /\ ret' = Ret("clone", dst, "ok", << >>, << >>, None)
    /\ UNCHANGED <<db_id, vector_db, images, collections, fs>>

Next_(l) ==
    /\ l \in DOMAIN loaders
    /\ LET r == __next__(fs, loaders[l], images)
           stop == r.status = "StopIteration"
       IN  /\ loaders' = [loaders EXCEPT ![l] = r.self]
           /\ images' = r.images
           /\ yielded' = IF stop THEN yielded
                         ELSE [yielded EXCEPT ![l] = Append(@, r.ids_batch)]
           /\ ret' = Ret("next", l, IF stop THEN "StopIteration" ELSE "ok",
                         r.ids_batch, r.image_batch, None)
    /\ UNCHANGED <<db_id, vector_db, collections, fs, origin>>

SetBatchSize(l, batch_size) ==
    /\ l \in DOMAIN loaders
    /\ loaders' = [loaders EXCEPT ![l] = set_batch_size(@, batch_size)]
    /\ ret' = Ret("set_batch_size", l, "ok", << >>, << >>, None)
    /\ UNCHANGED <<db_id, vector_db, images, collections, fs, yielded, origin>>

LoaderFilter(l, field_name, field_value) ==
    /\ l \in DOMAIN loaders
    /\ LET f == loader_filter(loaders[l], images, field_name, field_value) IN
       /\ loaders' = [loaders EXCEPT ![l] = f.self]
       /\ origin' = [origin EXCEPT
                        ![l].filtered = @ \/ f.err = "ok",
                        ![l].narrowed =
                            @ \/ Len(f.self.image_paths) < Len(loaders[l].image_paths)]
       /\ ret' = Ret("loader_filter", l, f.err, << >>, << >>, None)
    /\ UNCHANGED <<db_id, vector_db, images, collections, fs, yielded>>

CustomFilter(l, keep) ==
    /\ l \in DOMAIN loaders
    /\ LET f == custom_filter(loaders[l], images, keep) IN
       /\ loaders' = [loaders EXCEPT ![l] = f.self]
       /\ ret' = Ret("custom_filter", l, f.err, << >>, << >>, None)
    /\ UNCHANGED <<db_id, vector_db, images, collections, fs, yielded, origin>>

\* a Python int
PyInt(n) == [t |-> "int", v |-> <<n>>]

\* len(loader)
Length(l) ==
    /\ l \in DOMAIN loaders
    /\ ret' = Ret("len", l, "ok", << >>, << >>, PyInt(__len__(loaders[l])))
    /\ UNCHANGED <<db_id, vector_db, images, collections, fs, loaders, yielded, origin>>

\* what the HOG detector finds in the image of an id: len(boxes) > 0
Detect(image_id) == image_id = "/imgs/a.jpg"

\* HogsPeopleDetectorModule._process: store_field(id, 'is_person', ...) for each
\* id of the batch
RECURSIVE _process(_, _, _)
_process(imgs, cols, image_ids) ==
    IF image_ids = << >> THEN Outcome(imgs, cols, "ok")
    ELSE LET is_person == Detect(Head(image_ids))
             o == store_field(imgs, cols, Head(image_ids), IS_PERSON, Bool(is_person))
         IN  IF o.err # "ok" THEN o
             ELSE _process(o.images, o.collections, Tail(image_ids))

\* a pipeline module processing the batch that next() has just returned
Process ==
    /\ ret.op = "next"
    /\ ret.err = "ok"
    /\ LET o == _process(images, collections, ret.ids_batch) IN
       /\ images' = o.images
       /\ collections' = o.collections
       /\ ret' = Ret("process", ret.loader, o.err, ret.ids_batch, << >>, None)
    /\ UNCHANGED <<db_id, vector_db, fs, loaders, yielded, origin>>

-----------------------------------------------------------------------------
(* Specifications *)

\* a database and an images directory, no loader yet
Init ==
    /\ db_id = <<"db">>
    /\ vector_db \in {"chromadb", "pymongo.Database"}
    /\ images = << >>
    /\ collections = << >>
    /\ fs = Files
    /\ loaders = << >>
    /\ yielded = [l \in Slots |-> << >>]
    /\ origin = [l \in Slots |-> NoOrigin]
    /\ ret = NoRet

\* the database alone
NextDb ==
    \/ \E i \in ImageIds, p \in ImagePaths : AddImage(i, p)
    \/ \E i \in ImageIds, n \in FieldNames, v \in FieldValues : StoreField(i, n, v)
    \/ \E i \in ImageIds, n \in FieldNames : GetField(i, n)
    \/ \E n \in FieldNames, v \in Scalars \cup {None} : Filter(n, v)

SpecDb == Init /\ [][NextDb]_vars

\* any images directory
InitDir ==
    /\ db_id = <<"db">>
    /\ vector_db = "chromadb"
    /\ images = << >>
    /\ collections = << >>
    /\ fs \in SUBSET Files
    /\ loaders = << >>
    /\ yielded = [l \in Slots |-> << >>]
    /\ origin = [l \in Slots |-> NoOrigin]
    /\ ret = NoRet

\* one loader drained at a fixed batch size
NextDrain ==
    \/ \E b \in BatchSizes, d, ld, rl, rc \in BOOLEAN : Construct(1, b, d, ld, rl, rc)
    \/ Next_(1)

SpecDrain == InitDir /\ [][NextDrain]_vars

\* the whole images directory, a local vector store
InitPipeline ==
    /\ db_id = <<"db">>
    /\ vector_db = "chromadb"
    /\ images = << >>
    /\ collections = << >>
    /\ fs = Files
    /\ loaders = << >>
    /\ yielded = [l \in Slots |-> << >>]
    /\ origin = [l \in Slots |-> NoOrigin]
    /\ ret = NoRet

\* a pipeline: a loader, its clone, and a module writing is_person. The loader
\* of slot 1 is built, filtered and resized; its clone, of the same class, is
\* re-made from it at any time and iterated. Decoding and loading are left at
\* their defaults here and vary under SpecDrain and SpecClone.
Next ==
    \/ \E b \in BatchSizes, rc \in BOOLEAN : Construct(1, b, TRUE, TRUE, TRUE, rc)
    \/ Clone(1, 2)
    \/ \E l \in Slots : Next_(l)
    \/ \E b \in BatchSizes : SetBatchSize(1, b)
    \/ \E v \in {None, Bool(TRUE)} : LoaderFilter(1, IS_PERSON, v)
    \/ \E keep \in SUBSET ImageIds : CustomFilter(1, keep)
    \/ Process

Spec == InitPipeline /\ [][Next]_vars

\* construction and cloning under every setting
NextClone ==
    \/ \E b \in BatchSizes, d, ld, rl, rc \in BOOLEAN : Construct(1, b, d, ld, rl, rc)
    \/ \E b \in BatchSizes : SetBatchSize(1, b)
    \/ Clone(1, 2)
    \/ \E l \in Slots : Next_(l)

SpecClone == InitDir /\ [][NextClone]_vars

\* an id a caller registers by hand, under a path of its choice
COPY_ID == "copy"

\* a loader filtered at any time on records that add_image and next() register
\* and store_field fills
NextFilter ==
    \/ \E b \in BatchSizes, rc \in BOOLEAN : Construct(1, b, TRUE, TRUE, TRUE, rc)
    \/ Next_(1)
    \/ \E i \in ImageIds : AddImage(i, i)
    \/ \E p \in ImagePaths : AddImage(COPY_ID, p)
    \/ \E i \in ImageIds, v \in Scalars : StoreField(i, IS_PERSON, v)
    \/ \E v \in Scalars \cup {None} : LoaderFilter(1, IS_PERSON, v)

SpecFilter == InitPipeline /\ [][NextFilter]_vars

\* the n_results a caller asks for
MaxResults == 2

\* the database with its vector index queried, rows cloned and filtered
NextVector ==
    \/ \E i \in ImageIds : AddImage(i, i)
    \/ \E i \in ImageIds, n \in FieldNames, v \in FieldValues : StoreField(i, n, v)
    \/ \E i \in ImageIds, n \in FieldNames : GetField(i, n)
    \/ \E n \in FieldNames, v \in Scalars \cup {None} : Filter(n, v)
    \/ \E s, t \in ImageIds : CloneRow(s, t)
    \/ \E n \in FieldNames, q \in Vectors, k \in 1..MaxResults :
          QueryVectorField(n, q, k)

SpecVector == InitPipeline /\ [][NextVector]_vars

\* one loader, resized and measured while it is drained
NextLen ==
    \/ \E b \in BatchSizes, d, ld, rl, rc \in BOOLEAN : Construct(1, b, d, ld, rl, rc)
    \/ \E b \in BatchSizes : SetBatchSize(1, b)
    \/ Next_(1)
    \/ Length(1)

SpecLen == InitDir /\ [][NextLen]_vars

\* the database ids a caller gives
DatabaseIds == {<<"db">>, <<"my", "-", "db">>}

\* a database of either class, with a local or a remote vector store
InitStores ==
    /\ db_id \in DatabaseIds
    /\ vector_db \in {"chromadb", "pymongo.Database"} \cup LegacyKinds
    /\ images = << >>
    /\ collections = << >>
    /\ fs = Files
    /\ loaders = << >>
    /\ yielded = [l \in Slots |-> << >>]
    /\ origin = [l \in Slots |-> NoOrigin]
    /\ ret = NoRet

\* the database was built from the older class
IsLegacy == vector_db \in LegacyKinds

\* the calls of the class the database was built from
NextStores ==
    \/ ~IsLegacy /\ \E i \in ImageIds : AddImage(i, i)
    \/ ~IsLegacy /\ \E i \in ImageIds, v \in Scalars : StoreField(i, IS_PERSON, v)
    \/ ~IsLegacy /\ \E i \in ImageIds, n \in FieldNames, v \in Vectors :
                        StoreField(i, n, v)
    \/ ~IsLegacy /\ \E n \in FieldNames, q \in Vectors, k \in 1..MaxResults :
                        QueryVectorField(n, q, k)
    \/ ~IsLegacy /\ DeleteDb
    \/ IsLegacy /\ \E i \in ImageIds : LegacyAddImage(i, i)
    \/ IsLegacy /\ \E i \in ImageIds, v \in Scalars : LegacyStoreField(i, IS_PERSON, v)
    \/ IsLegacy /\ \E i \in ImageIds, n \in FieldNames, v \in Vectors :
                       LegacyStoreField(i, n, v)
    \/ IsLegacy /\ \E n \in FieldNames, q \in Vectors, k \in 1..MaxResults :
                       LegacyQueryVectorField(n, q, k)
    \/ IsLegacy /\ LegacyDeleteDb

SpecStores == InitStores /\ [][NextStores]_vars

\* the images directory as a str, and an explicit list of two of its files
IMAGES_DIR == Str(<<"/imgs">>)
IMAGES_LIST == List(<<"s/b.png", "a.jpg">>)

\* a loader built from a directory or from a list, then drained
NextList ==
    \/ \E p \in {IMAGES_DIR, IMAGES_LIST}, b \in BatchSizes, d, rc \in BOOLEAN :
          ConstructFrom(1, p, b, d, TRUE, rc)
    \/ Next_(1)

SpecList == InitDir /\ [][NextList]_vars

\* a loader and its clone on one database, their next() calls interleaved, with
\* a module storing is_person on each batch
NextShared ==
    \/ \E b \in BatchSizes, rc \in BOOLEAN : Construct(1, b, TRUE, TRUE, TRUE, rc)
    \/ Clone(1, 2)
    \/ \E l \in Slots : Next_(l)
    \/ Process

SpecShared == InitPipeline /\ [][NextShared]_vars

\* the same loader under a caller that keeps calling next(), as the for loop
\* of a module's process() does
NextFair ==
    \/ \E b \in BatchSizes, d, rc \in BOOLEAN : Construct(1, b, d, TRUE, TRUE, rc)
    \/ \E b \in BatchSizes : SetBatchSize(1, b)
    \/ Next_(1)
    \/ Length(1)

SpecFair == InitPipeline /\ [][NextFair]_vars /\ WF_vars(Next_(1))

\* records registered by next() only: two loaders, fields stored and cloned,
\* records pruned, the pending list filtered
NextRecords ==
    \/ \E b \in BatchSizes, rc \in BOOLEAN : Construct(1, b, TRUE, TRUE, TRUE, rc)
    \/ Clone(1, 2)
    \/ \E l \in Slots : Next_(l)
    \/ \E i \in ImageIds, v \in Scalars : StoreField(i, IS_PERSON, v)
    \/ \E s, t \in ImageIds : CloneRow(s, t)
    \/ \E v \in Scalars \cup {None} : Filter(IS_PERSON, v)
    \/ LoaderFilter(1, IS_PERSON, None)

SpecRecords == InitPipeline /\ [][NextRecords]_vars

-----------------------------------------------------------------------------
(* Helpers of the properties *)

RECURSIVE Flatten(_)
Flatten(seqs) == IF seqs = << >> THEN << >> ELSE Head(seqs) \o Flatten(Tail(seqs))

Drop(s, n) == SubSeq(s, n + 1, Len(s))

IsSuffix(s, t) == Len(s) <= Len(t) /\ s = Drop(t, Len(t) - Len(s))

Ceil(n, b) == (n + b - 1) \div b

RealPaths(paths) == [k \in 1..Len(paths) |-> realpath(paths[k])]

Members(s) == {s[k] : k \in 1..Len(s)}

\* what the loader of slot l enumerates
Source(l) == _get_all_image_paths(fs, loaders[l].is_recursive)

-----------------------------------------------------------------------------
(* Database.add_image, store_field, get_field, filter *)

\* C3: add_image(id, path) on an id that is already registered does not raise
\* and changes nothing: the record keeps its image_path, also when the call
\* passes another path, and every field stored on it, and no record is added.
C3_AddImageRegisteredIsNoOp ==
    [][\A i \in ImageIds, p \in ImagePaths :
          (ret'.op = "add_image" /\ i \in DOMAIN images /\ AddImage(i, p)) =>
              /\ ret'.err = "ok"
              /\ DOMAIN images' = DOMAIN images
              /\ images'[i] = images[i]
              /\ images' = images
              /\ collections' = collections]_vars

\* an add_image call made when both ids were registered and carried a field
C3_Witness ==
    /\ ret.op = "add_image"
    /\ DOMAIN images = ImageIds
    /\ \A i \in ImageIds : FACE_EMBEDDING \in DOMAIN images[i]
    /\ \E i \in ImageIds : images[i][PATH_KEY] # Str(<<i>>)

\* C4: store_field on an id that is not registered fails with the not-found
\* error whatever the value, scalar or vector, and leaves the document store
\* and every vector index as they were.
C4_StoreFieldUnregisteredFails ==
    [][\A i \in ImageIds, n \in FieldNames, v \in FieldValues :
          (ret'.op = "store_field" /\ i \notin DOMAIN images /\ StoreField(i, n, v)) =>
              /\ ret'.err = "NotFound"
              /\ images' = images
              /\ collections' = collections]_vars

\* a store_field call has failed with not-found while another id had a vector
C4_Witness ==
    /\ ret.op = "store_field"
    /\ ret.err = "NotFound"
    /\ DOMAIN images # ImageIds
    /\ collections # << >>

\* C5 as stated: store_field with a vector and a field name containing '-'
\* always fails with the invalid-argument error and writes nothing.
C5_DashAlwaysInvalidArgument ==
    [][\A i \in ImageIds, n \in FieldNames, v \in Vectors :
          (ret'.op = "store_field" /\ Contains(n, <<"-">>) /\ StoreField(i, n, v)) =>
              /\ ret'.err = "InvalidArgument"
              /\ images' = images
              /\ collections' = collections]_vars

\* C5 amended: store_field with a vector and a field name containing '-'
\* always fails and writes nothing; the error is invalid-argument when the id
\* is registered and not-found when it is not.
C5_DashFailsWritesNothing ==
    [][\A i \in ImageIds, n \in FieldNames, v \in Vectors :
          (ret'.op = "store_field" /\ Contains(n, <<"-">>) /\ StoreField(i, n, v)) =>
              /\ ret'.err = IF i \in DOMAIN images THEN "InvalidArgument" ELSE "NotFound"
              /\ images' = images
              /\ collections' = collections]_vars

\* a store_field call has failed with invalid-argument
C5_Witness ==
    /\ ret.op = "store_field"
    /\ ret.err = "InvalidArgument"
    /\ images # << >>

\* C6: once store_field(id, name, v) with a vector v has returned, the record
\* holds the placeholder string under name and get_field(id, name) returns a
\* vector equal to v, the latest stored.
C6_VectorRoundTrip ==
    [][\A i \in ImageIds, n \in FieldNames, v \in Vectors :
          (ret'.op = "store_field" /\ ret'.err = "ok" /\ StoreField(i, n, v)) =>
              /\ get_field(images', collections', i, n) = Got(v, "ok")
              /\ images'[i][n] = Placeholder
              /\ images'[i][n].t = "str"]_vars

\* get_field has returned a vector for a field that was stored twice: the
\* index holds one vector for one id and the other vector for the other id
C6_Witness ==
    /\ ret.op = "get_field"
    /\ ret.err = "ok"
    /\ ret.out \in Vectors
    /\ IndexFqn(EMBEDDING) \in DOMAIN collections
    /\ \E i \in DOMAIN images :
          /\ images[i][EMBEDDING] = Placeholder
          /\ collections[IndexFqn(EMBEDDING)][i] = ToList(ret.out)

\* C7: Database.filter(field_name, field_value) keeps exactly the records whose
\* field_name equals field_value and deletes every other record, those without
\* the field included; without a value it keeps exactly the records that have
\* the field. The records it keeps are unchanged.
C7_FilterKeepsExactlyMatches ==
    [][\A n \in FieldNames, v \in Scalars \cup {None} :
          (ret'.op = "filter" /\ Filter(n, v)) =>
              /\ DOMAIN images' =
                    {i \in DOMAIN images :
                        /\ n \in DOMAIN images[i]
                        /\ (v # None => images[i][n] = v)}
              /\ \A i \in DOMAIN images' : images'[i] = images[i]]_vars

\* after a filter one record is left, and the other id, which a filter has
\* deleted, still has its embedding in the index
C7_Witness ==
    /\ ret.op = "filter"
    /\ Cardinality(DOMAIN images) = 1
    /\ IndexFqn(EMBEDDING) \in DOMAIN collections
    /\ \E i \in ImageIds \ DOMAIN images : i \in DOMAIN collections[IndexFqn(EMBEDDING)]

-----------------------------------------------------------------------------
(* DataLoader.__next__, clone, filter *)

\* the size the k-th batch of n items at batch size b must have
BatchLen(n, b, k) ==
    IF k < Ceil(n, b) \/ n % b = 0 THEN b ELSE n % b

\* C1: a loader over N items drained at a fixed batch size B >= 1 hands out
\* exactly ceil(N/B) batches, each of B items but the last, which has N mod B
\* items (B when N mod B = 0); the call after the last batch raises
\* StopIteration and none returns an empty batch.
C1_DrainYieldsCeilBatches ==
    /\ [](1 \in DOMAIN loaders =>
            LET N == Len(Source(1))
                B == loaders[1].batch_size
            IN  /\ Len(yielded[1]) <= Ceil(N, B)
                /\ \A k \in 1..Len(yielded[1]) :
                      Len(yielded[1][k]) = BatchLen(N, B, k)
                /\ (ret.op = "next" /\ ret.err = "ok") => ret.ids_batch # << >>
                /\ (ret.op = "next" /\ ret.err = "StopIteration") =>
                      Len(yielded[1]) = Ceil(N, B))
    /\ [][(ret'.op = "next" /\ Next_(1)) =>
            LET N == Len(Source(1))
                B == loaders[1].batch_size
            IN  IF Len(yielded[1]) = Ceil(N, B)
                THEN ret'.err = "StopIteration" /\ yielded' = yielded
                ELSE ret'.err = "ok" /\ Len(yielded'[1]) = Len(yielded[1]) + 1]_vars

\* three items at batch size two: two batches, the last of one item, then
\* StopIteration
C1_Witness ==
    /\ 1 \in DOMAIN loaders
    /\ Len(Source(1)) = 3
    /\ loaders[1].batch_size = 2
    /\ ret.op = "next"
    /\ ret.err = "StopIteration"
    /\ Len(yielded[1]) = 2
    /\ Len(yielded[1][2]) = 1

\* C2: every id of a batch that next() returns is registered in the database
\* when next() returns, and the store_field calls a module makes on the ids of
\* the batch it has just received do not fail.
C2_BatchIdsAreRegistered ==
    /\ []((ret.op = "next" /\ ret.err = "ok") =>
            \A k \in 1..Len(ret.ids_batch) : ret.ids_batch[k] \in DOMAIN images)
    /\ [][(ret'.op = "process" /\ Process) => ret'.err = "ok"]_vars

\* a module has stored is_person on both ids of a batch of two
C2_Witness ==
    /\ ret.op = "process"
    /\ ret.err = "ok"
    /\ Len(ret.ids_batch) = 2
    /\ \A k \in 1..2 : IS_PERSON \in DOMAIN images[ret.ids_batch[k]]

\* C8: a clone taken from a loader on which filter() has returned hands out,
\* when drained, every item of the source, the items filter() dropped included;
\* a next() call on one loader leaves the pending list of the other as it was.
C8_CloneIteratesFullSource ==
    /\ []((/\ ret.op = "next"
           /\ ret.loader = 2
           /\ ret.err = "StopIteration"
           /\ origin[2].of_filtered) =>
            /\ Flatten(yielded[2]) = RealPaths(Source(2))
            /\ Members(RealPaths(Source(1))) \subseteq Members(Flatten(yielded[2])))
    /\ [][\A l \in Slots :
            (ret'.op = "next" /\ ret'.loader = l /\ Next_(l)) =>
                \A m \in DOMAIN loaders \ {l} :
                    loaders'[m].image_paths = loaders[m].image_paths]_vars

\* the clone of a loader that filter() has emptied, drained of all three items
\* while the loader it was cloned from still holds its filtered list
C8_Witness ==
    /\ ret.op = "next"
    /\ ret.loader = 2
    /\ ret.err = "StopIteration"
    /\ origin[2].of_narrowed
    /\ Len(Flatten(yielded[2])) = 3
    /\ loaders[1].is_first_iteration
    /\ Len(loaders[1].image_paths) < Len(Source(1))

\* C9 as stated: clone() gives a loader with the batch size, the decode flag,
\* the load flag and the recursive flag of the loader it is cloned from.
C9_CloneKeepsSettings ==
    [][(ret'.op = "clone" /\ Clone(1, 2)) =>
          /\ loaders'[2].batch_size = loaders[1].batch_size
          /\ loaders'[2].decode_images = loaders[1].decode_images
          /\ loaders'[2].load_images = loaders[1].load_images
          /\ loaders'[2].is_recursive = loaders[1].is_recursive]_vars

-----------------------------------------------------------------------------
(* DataLoader.filter *)

\* the ids of the records whose image_path is the resolved path of a locator
RecordsOf(imgs, image_path) ==
    {i \in DOMAIN imgs : /\ PATH_KEY \in DOMAIN imgs[i]
                         /\ imgs[i][PATH_KEY] = Str(<<realpath(image_path)>>)}

\* C11: DataLoader.filter(field_name, field_value) replaces the pending list by
\* the sub-list, in the original order, of the pending locators whose record
\* has field_name (equal to field_value when one is given); when some pending
\* locator's path matches no record or more than one, it raises and leaves the
\* pending list as it was.
C11_FilterSublistOrFails ==
    [][\A v \in Scalars \cup {None} :
          (ret'.op = "loader_filter" /\ 1 \in DOMAIN loaders
              /\ LoaderFilter(1, IS_PERSON, v)) =>
              LET pending == loaders[1].image_paths
                  Unique(p) == Cardinality(RecordsOf(images, p)) = 1
                  Keeps(p) == \A i \in RecordsOf(images, p) :
                                  /\ IS_PERSON \in DOMAIN images[i]
                                  /\ (v # None => images[i][IS_PERSON] = v)
              IN  IF \A k \in 1..Len(pending) : Unique(pending[k])
                  THEN /\ ret'.err = "ok"
                       /\ loaders'[1].image_paths = SelectSeq(pending, Keeps)
                  ELSE /\ ret'.err \in {"ValueError", "AssertionError"}
                       /\ loaders'[1].image_paths = pending
                       /\ (\E k \in 1..Len(pending) :
                              RecordsOf(images, pending[k]) = {})
                             \/ ret'.err = "AssertionError"
                       /\ (\E k \in 1..Len(pending) :
                              Cardinality(RecordsOf(images, pending[k])) > 1)
                             \/ ret'.err = "ValueError"]_vars

\* a filter that has dropped a pending locator and kept another
C11_Witness ==
    /\ ret.op = "loader_filter"
    /\ ret.err = "ok"
    /\ 1 \in DOMAIN loaders
    /\ origin[1].narrowed
    /\ loaders[1].image_paths # << >>
    /\ \E k \in 1..Len(loaders[1].image_paths) :
          \E i \in RecordsOf(images, loaders[1].image_paths[k]) :
              IS_PERSON \in DOMAIN images[i]

-----------------------------------------------------------------------------
(* Database.clone_row, query_vector_field *)

\* C12: after clone_row(src, dst), for every field of src other than the id
\* and the path that get_field reads on src, get_field(dst, name) succeeds with
\* the same value, and for a vector field the index holds an embedding for dst.
C12_CloneRowCopiesEveryField ==
    [][\A s, t \in ImageIds :
          (ret'.op = "clone_row" /\ ret'.err = "ok" /\ CloneRow(s, t)) =>
              \A n \in DOMAIN images[s] \ {ID_KEY, PATH_KEY} :
                  LET src == get_field(images, collections, s, n)
                      dst == get_field(images', collections', t, n)
                  IN  src.err = "ok" =>
                          /\ dst = src
                          /\ IsNdarray(src.value) =>
                                /\ IndexFqn(n) \in DOMAIN collections'
                                /\ t \in DOMAIN collections'[IndexFqn(n)]]_vars

\* C13: whatever add_image, store_field, filter and clone_row calls came
\* before, every result of query_vector_field is the document of an id that
\* is registered now, never None, paired with its distance, nearest first.
C13_QueryResultsAreRegistered ==
    [][(ret'.op = "query_vector_field" /\ ret'.err = "ok") =>
          LET results_meta == ret'.out.v[1]
              results_dists == ret'.out.v[2]
          IN  /\ Len(results_meta) = Len(results_dists)
              /\ \A k \in 1..Len(results_meta) :
                    /\ results_meta[k].t = "dict"
                    /\ \E i \in DOMAIN images : results_meta[k].v = images[i]
              /\ \A j, k \in 1..Len(results_dists) :
                    j < k => results_dists[j] <= results_dists[k]]_vars

\* C14: query_vector_field on a field whose index does not exist, no vector
\* having been stored under it, fails with the not-found error and creates
\* nothing: the index is still missing afterwards, so the next query of the
\* field fails the same way.
C14_QueryMissingIndexFails ==
    [][\A n \in FieldNames, q \in Vectors, k \in 1..MaxResults :
          (ret'.op = "query_vector_field" /\ IndexFqn(n) \notin DOMAIN collections
              /\ QueryVectorField(n, q, k)) =>
              /\ ret'.err = "IndexNotFound"
              /\ collections' = collections
              /\ images' = images
              /\ \A r \in query_vector_field(images', collections', n, q, k) :
                    r.err = "IndexNotFound"]_vars

\* a query of a field never written has failed while another field has an index
C14_Witness ==
    /\ ret.op = "query_vector_field"
    /\ ret.err = "IndexNotFound"
    /\ IndexFqn(EMBEDDING) \in DOMAIN collections
    /\ IndexFqn(FACE_EMBEDDING) \notin DOMAIN collections

\* C15: once store_field(id, name, v) has stored one vector under a field name
\* never written before, so that the index of the field holds that one
\* embedding and the record carries the field, query_vector_field(name, v, 1)
\* returns exactly one result: the record of the id, at distance 0.
C15_OneStoreThenNearestIsItself ==
    [][\A i \in ImageIds, v \in Vectors :
          (/\ ret'.op = "query_vector_field"
           /\ IndexFqn(EMBEDDING) \in DOMAIN collections
           /\ DOMAIN collections[IndexFqn(EMBEDDING)] = {i}
           /\ collections[IndexFqn(EMBEDDING)][i] = ToList(v)
           /\ i \in DOMAIN images
           /\ EMBEDDING \in DOMAIN images[i]
           /\ images[i][EMBEDDING] = Placeholder
           /\ QueryVectorField(EMBEDDING, v, 1)) =>
              /\ ret'.err = "ok"
              /\ ret'.out.v[1] = <<Dict(images, i)>>
              /\ ret'.out.v[2] = <<0>>]_vars

\* the one id of an index has come back as the nearest, at distance 0
C15_Witness ==
    /\ ret.op = "query_vector_field"
    /\ ret.err = "ok"
    /\ IndexFqn(EMBEDDING) \in DOMAIN collections
    /\ \E i \in DOMAIN images :
          /\ DOMAIN collections[IndexFqn(EMBEDDING)] = {i}
          /\ ret.out.v[1] = <<Dict(images, i)>>
          /\ ret.out.v[2] = <<0>>

-----------------------------------------------------------------------------
(* DataLoader.__len__, set_batch_size *)

\* C16: len(loader) is floor(P / B) for P pending locators and batch size B:
\* the number of full batches left, a final partial batch not counted; before
\* the first next() that is floor(N / B) for the N locators enumerated.
C16_LenIsFloorOfPending ==
    [][(ret'.op = "len" /\ 1 \in DOMAIN loaders /\ Length(1)) =>
          LET P == Len(loaders[1].image_paths)
              B == loaders[1].batch_size
              n == ret'.out.v[1]
          IN  /\ ret'.err = "ok"
              /\ ret'.out.t = "int"
              /\ n * B <= P
              /\ P < (n + 1) * B
              /\ loaders[1].is_first_iteration =>
                    /\ n * B <= Len(Source(1))
                    /\ Len(Source(1)) < (n + 1) * B]_vars

\* a length that leaves a final partial batch out
C16_Witness ==
    /\ ret.op = "len"
    /\ 1 \in DOMAIN loaders
    /\ ret.out.v[1] = 1
    /\ Len(loaders[1].image_paths) = 3
    /\ loaders[1].batch_size = 2

-----------------------------------------------------------------------------
(* Remote vector store, delete_db *)

\* the kinds of _vector_db a database built with a remote key holds
RemoteKinds == {"pymongo.Database", "None"}

C18_DeleteDbRemovesEverything ==
    [][(ret'.op = "delete_db" /\ vector_db \notin RemoteKinds) =>
          /\ ret'.err = "ok"
          /\ get_all_images(images') = {}
          /\ \A n \in FieldNames :
                /\ IndexFqn(n) \notin DOMAIN collections'
                /\ \A q \in Vectors, k \in 1..MaxResults :
                      \A r \in IF IsLegacy
                                THEN legacy_query_vector_field(images', collections',
                                                               n, q, k)
                                ELSE query_vector_field(images', collections', n, q, k) :
                          r.err = "IndexNotFound"]_vars

-----------------------------------------------------------------------------
(* DataLoader built from a list; set_batch_size while iterating *)

\* C19: a DataLoader built from an explicit list of locators is built without
\* error and without listing any directory, its pending list being the list
\* given, in the order given.
C19_ListSourceUsedVerbatim ==
    [][\A b \in BatchSizes, d, rc \in BOOLEAN :
          (ret'.op = "init" /\ ConstructFrom(1, IMAGES_LIST, b, d, TRUE, rc)) =>
              /\ ret'.err = "ok"
              /\ 1 \in DOMAIN loaders'
              /\ loaders'[1].image_paths = IMAGES_LIST.v]_vars

\* C20: however set_batch_size(n), n >= 1, and next() interleave on a loader,
\* the batches yielded so far followed by the pending locators are the source
\* list in order, each locator once; set_batch_size changes the batch size and
\* nothing else, and each next() yields the current batch size of locators, or
\* the fewer that are left.
C20_ResizeKeepsFifoOrder ==
    [][(1 \in DOMAIN loaders /\ 1 \in DOMAIN loaders') =>
          LET source == RealPaths(_get_all_image_paths(fs, loaders[1].is_recursive))
              list == IF loaders[1].is_first_iteration
                      THEN source ELSE RealPaths(loaders[1].image_paths)
          IN  /\ ~loaders'[1].is_first_iteration =>
                    Flatten(yielded'[1]) \o RealPaths(loaders'[1].image_paths) = source
              /\ ret'.op = "set_batch_size" =>
                    /\ loaders'[1].image_paths = loaders[1].image_paths
                    /\ loaders'[1] = [loaders[1] EXCEPT
                                         !.batch_size = loaders'[1].batch_size]
                    /\ yielded' = yielded
              /\ (ret'.op = "next" /\ ret'.err = "ok") =>
                    /\ Len(ret'.ids_batch) =
                          IF loaders[1].batch_size < Len(list)
                          THEN loaders[1].batch_size ELSE Len(list)
                    /\ Len(ret'.ids_batch) <= Len(list)
                    /\ ret'.ids_batch = SubSeq(list, 1, Len(ret'.ids_batch))]_vars

\* a loader drained by a batch of one and then, resized, by a batch of two
C20_Witness ==
    /\ 1 \in DOMAIN loaders
    /\ loaders[1].image_paths = << >>
    /\ Len(yielded[1]) = 2
    /\ Len(yielded[1][1]) = 1
    /\ Len(yielded[1][2]) = 2
    /\ loaders[1].batch_size = 2

-----------------------------------------------------------------------------
(* get_field of a scalar; loaders sharing a database *)

\* C21: once store_field(id, name, v) has stored a scalar v, a string or a
\* boolean, get_field(id, name) returns exactly v, without error and without
\* going to the vector index.
C21_ScalarReadBack ==
    [][\A i \in ImageIds, n \in FieldNames, v \in Scalars :
          (ret'.op = "store_field" /\ ret'.err = "ok" /\ StoreField(i, n, v)) =>
              get_field(images', collections', i, n) = Got(v, "ok")]_vars

\* a loader that has started and has nothing pending
Drained(self) == ~self.is_first_iteration /\ self.image_paths = << >>

\* C22: a loader and its clone on one database, next() calls interleaved in
\* any order: no next() raises but for exhaustion, each loader once drained
\* has yielded its source in order, each item once, every record is the one
\* record of its path, a next() leaves the records there and their fields as
\* they were, and when both loaders of one source are drained the records are
\* exactly the distinct items of the source.
C22_SharedDatabaseInterleaving ==
    [][ret'.op = "next" =>
          /\ ret'.err \in {"ok", "StopIteration"}
          /\ \A i \in DOMAIN images : i \in DOMAIN images' /\ images'[i] = images[i]
          /\ \A i \in DOMAIN images' : images'[i][PATH_KEY] = Str(<<i>>)
          /\ \A l \in DOMAIN loaders' :
                Drained(loaders'[l]) =>
                    Flatten(yielded'[l]) =
                        RealPaths(_get_all_image_paths(fs, loaders'[l].is_recursive))
          /\ (/\ DOMAIN loaders' = Slots
              /\ \A l \in Slots : Drained(loaders'[l])
              /\ loaders'[1].is_recursive = loaders'[2].is_recursive) =>
                DOMAIN images' =
                    Members(RealPaths(_get_all_image_paths(fs, loaders'[1].is_recursive)))]_vars

\* both loaders drained by several batches each, a field stored in between
C22_Witness ==
    /\ DOMAIN loaders = Slots
    /\ \A l \in Slots : Drained(loaders[l]) /\ Len(yielded[l]) >= 2
    /\ loaders[1].is_recursive = loaders[2].is_recursive
    /\ \E i \in DOMAIN images : IS_PERSON \in DOMAIN images[i]
    /\ ret.op = "next"

-----------------------------------------------------------------------------
(* filter then next; termination; one record per path *)

\* C23: when filter('is_person', v) has just returned on a loader, before its
\* first next() or after it, every id the next() that follows yields is that
\* of a record that had the field when filter ran.
C23_NextAfterFilterYieldsMatches ==
    [][(/\ ret.op = "loader_filter"
        /\ ret.err = "ok"
        /\ ret'.op = "next"
        /\ ret'.err = "ok") =>
          \A k \in 1..Len(ret'.ids_batch) :
              /\ ret'.ids_batch[k] \in DOMAIN images
              /\ IS_PERSON \in DOMAIN images[ret'.ids_batch[k]]]_vars

\* C24: on an unchanging source, with set_batch_size(n), n >= 1, at any time:
\* a next() that succeeds returns a non-empty batch and leaves fewer locators
\* pending than there were to yield; once nothing is pending every next()
\* raises StopIteration and nothing becomes pending again; and a caller that
\* keeps calling next() reaches StopIteration.
C24_IterationTerminates ==
    /\ [][1 \in DOMAIN loaders =>
            LET before == IF loaders[1].is_first_iteration
                          THEN Len(Source(1)) ELSE Len(loaders[1].image_paths)
            IN  /\ (ret'.op = "next" /\ ret'.err = "ok") =>
                      /\ ret'.ids_batch # << >>
                      /\ Len(loaders'[1].image_paths) < before
                /\ (ret'.op = "next" /\ ret'.err = "StopIteration") =>
                      Drained(loaders'[1])
                /\ Drained(loaders[1]) =>
                      /\ Drained(loaders'[1])
                      /\ ret'.op = "next" => ret'.err = "StopIteration"]_vars
    /\ (1 \in DOMAIN loaders) ~> (ret.op = "next" /\ ret.err = "StopIteration")

\* exhaustion raised after several batches, the batch size changed on the way
C24_Witness ==
    /\ ret.op = "next"
    /\ ret.err = "StopIteration"
    /\ 1 \in DOMAIN loaders
    /\ Len(yielded[1]) = 2
    /\ Len(yielded[1][1]) = 2
    /\ Len(yielded[1][2]) = 1
    /\ loaders[1].batch_size = 1

====
